---- MODULE Spec2Model ----
(***************************************************************************)
(* Model of ignite/contrib/handlers/trains_logger.py: the TrainsLogger,    *)
(* its six handlers and the TrainsSaver, driven by the call order of the   *)
(* example's run() (construct, attach, trainer.run, close).                *)
(***************************************************************************)
EXTENDS Integers, Sequences, FiniteSets, TLC

VARIABLES
    trainsInstalled,\* whether "import trains" succeeds
    bypassAttr,     \* the class attribute TrainsLogger._bypass
    logger,         \* the TrainsLogger instance: its _task and how it was built
    handlers,       \* the fields of the attached handlers, once they are made
    saver,          \* the TrainsSaver instance
    phase,          \* position in run(): setup, running, returned, closed
    engineStep,     \* engine.state.get_event_attrib_value(event_name)
    op,             \* the last operation: its inputs, its calls, its outcome
    taskInitCalls,  \* number of trains.Task.init calls
    sessionReached, \* a call made through the logger reached a vendor session
    flushes,        \* number of trains_logger.flush() calls
    reportedAfterClose, \* a handler issued a vendor call after close()
    watched,        \* the attached handler whose steps are recorded
    lastStep        \* the steps the watched handler last passed: <<>> or <<step>>

vars == <<trainsInstalled, bypassAttr, logger, handlers, saver, phase, engineStep,
          op, taskInitCalls, sessionReached, flushes, reportedAfterClose,
          watched, lastStep>>

------------------------------------------------------------------------------
\* Bounds of the model.

MaxMetrics == 2
MaxParams == 2
MaxGroups == 2
MaxIter == 2

------------------------------------------------------------------------------
\* Inputs.

Unset == "<unset>"
NoGrad == <<>>

\* os.environ when bypass_mode() reads it, as far as the code and its
\* documentation name its variables.
Environs ==
    {[CI |-> Unset, GITHUB_ACTIONS |-> Unset], [CI |-> "", GITHUB_ACTIONS |-> Unset],
     [CI |-> "true", GITHUB_ACTIONS |-> "true"], [CI |-> Unset, GITHUB_ACTIONS |-> "true"]}
Tags == {"", "training"}
Reductions == {"sum", "max"}
LrValues == {[type |-> "int", val |-> 1], [type |-> "float", val |-> 2]}
LoggerArgs == {"TrainsLogger", "OtherLogger"}
OptParamNames == {"lr"}

HandlerKinds ==
    {"OutputHandler", "OptimizerParamsHandler", "WeightsScalarHandler",
     "WeightsHistHandler", "GradsScalarHandler", "GradsHistHandler"}

\* The fields the six constructors store, for one way of attaching the handlers:
\* neighbouring handlers get different tags and reductions.
Attached(tagged, custom) ==
    LET tagA == IF tagged THEN "training" ELSE ""
        tagB == IF tagged THEN "" ELSE "training"
        redA == IF custom THEN "max" ELSE "sum"
        redB == IF custom THEN "sum" ELSE "max"
    IN [OutputHandler |->
            [tag |-> tagA, global_step_transform |-> IF custom THEN "user" ELSE "default"],
        OptimizerParamsHandler |-> [tag |-> tagB, param_name |-> "lr"],
        WeightsScalarHandler |-> [tag |-> tagA, reduction |-> redA],
        WeightsHistHandler |-> [tag |-> tagB],
        GradsScalarHandler |-> [tag |-> tagB, reduction |-> redB],
        GradsHistHandler |-> [tag |-> tagA]]

HandlerSets == {Attached(tagged, custom) : tagged \in BOOLEAN, custom \in BOOLEAN}
NoHandlers == [none |-> TRUE]

\* The metrics an engine can hold: a float, a tensor (a confusion matrix), an int.
MetricTable ==
    <<[key |-> "loss", value |-> [type |-> "float", val |-> 2]],
      [key |-> "cm", value |-> [type |-> "Tensor", val |-> 0]],
      [key |-> "accuracy", value |-> [type |-> "int", val |-> 1]]>>

\* The named parameters of the model: name, weight data, gradient.
ParamTable ==
    <<[name |-> <<"fc1", "weight">>, data |-> <<1, 2>>, grad |-> <<0, 3>>],
      [name |-> <<"bias">>, data |-> <<0, 3>>, grad |-> <<2, 2>>],
      [name |-> <<"conv", "0", "weight">>, data |-> <<1, 1>>, grad |-> <<1, 0>>]>>

Min(a, b) == IF a < b THEN a ELSE b

\* Values a global_step_transform can return.
GlobalSteps ==
    {[type |-> "int", val |-> i] : i \in 0..MaxIter}
        \cup {[type |-> "float", val |-> 1], [type |-> "NoneType", val |-> 0]}

\* engine.state.metrics / output_transform results: a dict, in insertion order.
MetricsInputs ==
    UNION {{[i \in 1..n |-> MetricTable[f[i]]] :
               f \in {g \in [1..n -> 1..Len(MetricTable)] :
                         \A i, j \in 1..n : i # j => g[i] # g[j]}}
              : n \in 0..Min(MaxMetrics, Len(MetricTable))}

\* model.named_parameters(): a parameter that did not take part in the backward
\* pass has grad None (NoGrad).
ParamsInputs ==
    UNION {{[i \in 1..n |-> [name |-> ParamTable[i].name, data |-> ParamTable[i].data,
                             grad |-> IF hasGrad[i] THEN ParamTable[i].grad ELSE NoGrad]]
               : hasGrad \in [1..n -> BOOLEAN]}
              : n \in 0..Min(MaxParams, Len(ParamTable))}

\* optimizer.param_groups: the value of param_name in each group.
GroupsInputs ==
    UNION {[1..n -> LrValues] : n \in 0..MaxGroups}

------------------------------------------------------------------------------
\* Python and vendor helpers.

\* bool(x) of an environment value: None and "" are false.
PyBool(x) == x # Unset /\ x # ""

\* float(x) of a number.
PyFloat(x) == [type |-> "float", val |-> x.val]

RECURSIVE JoinDots(_)
JoinDots(segs) ==
    IF segs = <<>> THEN ""
    ELSE IF Len(segs) = 1 THEN segs[1]
    ELSE segs[1] \o "." \o JoinDots(Tail(segs))

\* name.partition("."): the part before the first dot, the part after it.
Partition(name) == [title_name |-> name[1], series_name |-> JoinDots(Tail(name))]

RECURSIVE TensorSum(_)
TensorSum(t) == IF t = <<>> THEN 0 ELSE t[1] + TensorSum(Tail(t))

RECURSIVE TensorMax(_)
TensorMax(t) ==
    IF Len(t) = 1 THEN t[1]
    ELSE LET m == TensorMax(Tail(t)) IN IF t[1] > m THEN t[1] ELSE m

\* self.reduction(tensor), self.reduction.__name__ being `red`.
Reduce(red, t) == IF red = "sum" THEN TensorSum(t) ELSE TensorMax(t)

------------------------------------------------------------------------------
\* Outcomes of a call.

Raise(exc, why) == [raised |-> exc, cause |-> why, calls |-> <<>>, warnings |-> 0]

Return(cs, w) == [raised |-> "none", cause |-> "none", calls |-> cs, warnings |-> w]

\* "{}/".format(self.tag) if self.tag else ""
TagPrefix(tag) == IF tag # "" THEN tag \o "/" ELSE ""

report_scalar(title, series, value, iteration) ==
    [api |-> "report_scalar", title |-> title, series |-> series,
     value |-> value, iteration |-> iteration]

add_histogram(title, series, step, hist_data) ==
    [api |-> "add_histogram", title |-> title, series |-> series,
     step |-> step, hist_data |-> hist_data]

------------------------------------------------------------------------------
\* OutputHandler.__call__

\* The loop, were it to stop at the first value of another type.
RECURSIVE OutputHandler_loop_stops(_, _, _)
OutputHandler_loop_stops(tag, metrics, global_step) ==
    IF metrics = <<>> THEN [calls |-> <<>>, warnings |-> 0]
    ELSE LET m == Head(metrics)
             rest == OutputHandler_loop_stops(tag, Tail(metrics), global_step)
         IN IF m.value.type \in {"float", "int"}
            THEN [calls |-> <<report_scalar(tag, m.key, m.value, global_step)>> \o rest.calls,
                  warnings |-> rest.warnings]
            ELSE [calls |-> <<>>, warnings |-> 1]

\* The loop over metrics.items(): a call per float or int value, a warning otherwise.
RECURSIVE OutputHandler_loop(_, _, _)
OutputHandler_loop(tag, metrics, global_step) ==
    IF metrics = <<>> THEN [calls |-> <<>>, warnings |-> 0]
    ELSE LET m == Head(metrics)
             rest == OutputHandler_loop(tag, Tail(metrics), global_step)
         IN IF m.value.type \in {"float", "int"}
            THEN [calls |-> <<report_scalar(tag, m.key, m.value, global_step)>> \o rest.calls,
                  warnings |-> rest.warnings]
            ELSE [calls |-> rest.calls, warnings |-> rest.warnings + 1]

\* The call, were the global step checked after the metrics were reported.
OutputHandler_call_late_check(loggerArg, tag, metrics, global_step) ==
    IF loggerArg # "TrainsLogger" THEN Raise("RuntimeError", "logger_type")
    ELSE LET r == OutputHandler_loop(tag, metrics, global_step.val)
         IN IF global_step.type # "int"
            THEN [raised |-> "TypeError", cause |-> "global_step_type",
                  calls |-> r.calls, warnings |-> r.warnings]
            ELSE Return(r.calls, r.warnings)

\* The call, were a metric value of another type to raise instead of warn.
OutputHandler_call_strict(loggerArg, tag, metrics, global_step) ==
    IF loggerArg # "TrainsLogger" THEN Raise("RuntimeError", "logger_type")
    ELSE IF global_step.type # "int" THEN Raise("TypeError", "global_step_type")
    ELSE IF \E i \in 1..Len(metrics) : metrics[i].value.type \notin {"float", "int"}
    THEN Raise("TypeError", "metric_type")
    ELSE Return(OutputHandler_loop(tag, metrics, global_step.val).calls, 0)

OutputHandler_call(loggerArg, tag, metrics, global_step) ==
    IF loggerArg # "TrainsLogger" THEN Raise("RuntimeError", "logger_type")
    ELSE IF global_step.type # "int" THEN Raise("TypeError", "global_step_type")
    ELSE LET r == OutputHandler_loop(tag, metrics, global_step.val)
         IN Return(r.calls, r.warnings)

------------------------------------------------------------------------------
\* OptimizerParamsHandler.__call__

\* The loop, were the group index passed as the iteration.
OptimizerParamsHandler_loop_index_as_step(tag, param_name, groups, global_step) ==
    [i \in 1..Len(groups) |->
        report_scalar(TagPrefix(tag) \o param_name, ToString(i - 1),
                      PyFloat(groups[i]), i - 1)]

\* params = {str(i): float(param_group[param_name])}, reported in order.
OptimizerParamsHandler_loop(tag, param_name, groups, global_step) ==
    [i \in 1..Len(groups) |->
        report_scalar(TagPrefix(tag) \o param_name, ToString(i - 1),
                      PyFloat(groups[i]), global_step)]

OptimizerParamsHandler_call(loggerArg, tag, param_name, groups, global_step) ==
    IF loggerArg # "TrainsLogger" THEN Raise("RuntimeError", "logger_type")
    ELSE Return(OptimizerParamsHandler_loop(tag, param_name, groups, global_step), 0)

------------------------------------------------------------------------------
\* WeightsScalarHandler, WeightsHistHandler, GradsScalarHandler, GradsHistHandler

RECURSIVE WeightsScalarHandler_loop(_, _, _, _)
WeightsScalarHandler_loop(tag, reduction, params, global_step) ==
    IF params = <<>> THEN <<>>
    ELSE LET p == Head(params)
             rest == WeightsScalarHandler_loop(tag, reduction, Tail(params), global_step)
             n == Partition(p.name)
         IN IF p.grad = NoGrad THEN rest
            ELSE <<report_scalar(
                      TagPrefix(tag) \o "weights_" \o reduction \o "/" \o n.title_name,
                      n.series_name, Reduce(reduction, p.data), global_step)>> \o rest

\* The call, were the logger checked after the parameters were reported.
WeightsScalarHandler_call_late_check(loggerArg, tag, reduction, params, global_step) ==
    LET calls == WeightsScalarHandler_loop(tag, reduction, params, global_step)
    IN IF loggerArg # "TrainsLogger"
       THEN [raised |-> "RuntimeError", cause |-> "logger_type", calls |-> calls,
             warnings |-> 0]
       ELSE Return(calls, 0)

WeightsScalarHandler_call(loggerArg, tag, reduction, params, global_step) ==
    IF loggerArg # "TrainsLogger" THEN Raise("RuntimeError", "logger_type")
    ELSE Return(WeightsScalarHandler_loop(tag, reduction, params, global_step), 0)

RECURSIVE WeightsHistHandler_loop(_, _, _)
WeightsHistHandler_loop(tag, params, global_step) ==
    IF params = <<>> THEN <<>>
    ELSE LET p == Head(params)
             rest == WeightsHistHandler_loop(tag, Tail(params), global_step)
             n == Partition(p.name)
         IN IF p.grad = NoGrad THEN rest
            ELSE <<add_histogram(TagPrefix(tag) \o "weights_" \o n.title_name,
                                 n.series_name, global_step, p.grad)>> \o rest

WeightsHistHandler_call(loggerArg, tag, params, global_step) ==
    IF loggerArg # "TrainsLogger" THEN Raise("RuntimeError", "logger_type")
    ELSE Return(WeightsHistHandler_loop(tag, params, global_step), 0)

RECURSIVE GradsScalarHandler_loop(_, _, _, _)
GradsScalarHandler_loop(tag, reduction, params, global_step) ==
    IF params = <<>> THEN <<>>
    ELSE LET p == Head(params)
             rest == GradsScalarHandler_loop(tag, reduction, Tail(params), global_step)
             n == Partition(p.name)
         IN IF p.grad = NoGrad THEN rest
            ELSE <<report_scalar(
                      TagPrefix(tag) \o "grads_" \o reduction \o "/" \o n.title_name,
                      n.series_name, Reduce(reduction, p.data), global_step)>> \o rest

GradsScalarHandler_call(loggerArg, tag, reduction, params, global_step) ==
    IF loggerArg # "TrainsLogger" THEN Raise("RuntimeError", "logger_type")
    ELSE Return(GradsScalarHandler_loop(tag, reduction, params, global_step), 0)

\* The loop, were it to stop at the first parameter without a gradient.
RECURSIVE GradsHistHandler_loop_breaks(_, _, _)
GradsHistHandler_loop_breaks(tag, params, global_step) ==
    IF params = <<>> THEN <<>>
    ELSE LET p == Head(params)
             n == Partition(p.name)
         IN IF p.grad = NoGrad THEN <<>>
            ELSE <<add_histogram(TagPrefix(tag) \o "grads_" \o n.title_name,
                                 n.series_name, global_step, p.grad)>>
                     \o GradsHistHandler_loop_breaks(tag, Tail(params), global_step)

RECURSIVE GradsHistHandler_loop(_, _, _)
GradsHistHandler_loop(tag, params, global_step) ==
    IF params = <<>> THEN <<>>
    ELSE LET p == Head(params)
             rest == GradsHistHandler_loop(tag, Tail(params), global_step)
             n == Partition(p.name)
         IN IF p.grad = NoGrad THEN rest
            ELSE <<add_histogram(TagPrefix(tag) \o "grads_" \o n.title_name,
                                 n.series_name, global_step, p.grad)>> \o rest

GradsHistHandler_call(loggerArg, tag, params, global_step) ==
    IF loggerArg # "TrainsLogger" THEN Raise("RuntimeError", "logger_type")
    ELSE Return(GradsHistHandler_loop(tag, params, global_step), 0)

------------------------------------------------------------------------------
\* TrainsLogger

\* getattr(cls, "_bypass", bool(os.environ.get("CI")))
bypass_mode(attr, env) == IF attr # <<>> THEN attr[1] ELSE PyBool(env.CI)

\* The constructor, were trains.Task.init called before bypass mode is looked at.
TrainsLogger_init_eager(installed, bypass) ==
    IF ~installed
    THEN [raised |-> "RuntimeError", cause |-> "missing_package", task |-> "none",
          calls |-> <<>>, warnings |-> 0]
    ELSE [raised |-> "none", cause |-> "none", task |-> IF bypass THEN "stub" ELSE "real",
          calls |-> <<[api |-> "Task.init"]>>, warnings |-> IF bypass THEN 1 ELSE 0]

\* TrainsLogger.__init__: the import, then a _Stub task or trains.Task.init.
TrainsLogger_init(installed, bypass) ==
    IF ~installed
    THEN [raised |-> "RuntimeError", cause |-> "missing_package", task |-> "none",
          calls |-> <<>>, warnings |-> 0]
    ELSE IF bypass
    THEN [raised |-> "none", cause |-> "none", task |-> "stub",
          calls |-> <<>>, warnings |-> 1]
    ELSE [raised |-> "none", cause |-> "none", task |-> "real",
          calls |-> <<[api |-> "Task.init"]>>, warnings |-> 0]

\* What a call made on logger.trains_logger, or on logger.grad_helper (built on
\* that trains_logger), hands to the vendor session: a _Stub returns itself for
\* every attribute and call.
Deliver(task, calls) == IF task = "stub" THEN <<>> ELSE calls

\* close(), were it to flush again on its way out.
close_flushes_twice == <<[api |-> "flush"], [api |-> "flush"]>>

\* TrainsLogger.close
close == <<[api |-> "flush"]>>

------------------------------------------------------------------------------
\* TrainsSaver

TrainsSaver_init(loggerArg, installed, dirnameGiven) ==
    IF loggerArg # "TrainsLogger" THEN Raise("TypeError", "logger_type")
    ELSE IF ~installed THEN Raise("RuntimeError", "missing_package")
    ELSE Return(<<[api |-> "Task.current_task"]>>, IF dirnameGiven THEN 0 ELSE 1)

\* The save, were the upload made without looking for the file.
TrainsSaver_call_unchecked(atomic, diskReturns, pathExists, installed) ==
    LET save == [api |-> "DiskSaver.__call__", returned |-> diskReturns]
    IN IF ~diskReturns
       THEN [raised |-> "Exception", cause |-> "disk_save", calls |-> <<save>>, warnings |-> 0]
       ELSE IF ~installed
       THEN [raised |-> "RuntimeError", cause |-> "missing_package",
             calls |-> <<save>>, warnings |-> 0]
       ELSE IF atomic
       THEN Return(<<save, [api |-> "create_output_model"]>>, 0)
       ELSE Return(<<save>>, 0)

\* TrainsSaver.__call__: the inherited DiskSaver save (it returns or raises),
\* the import, then the upload when atomic and the file exists.
TrainsSaver_call(atomic, diskReturns, pathExists, installed) ==
    LET save == [api |-> "DiskSaver.__call__", returned |-> diskReturns]
    IN IF ~diskReturns
       THEN [raised |-> "Exception", cause |-> "disk_save", calls |-> <<save>>, warnings |-> 0]
       ELSE IF ~installed
       THEN [raised |-> "RuntimeError", cause |-> "missing_package",
             calls |-> <<save>>, warnings |-> 0]
       ELSE IF atomic /\ pathExists
       THEN Return(<<save, [api |-> "create_output_model"]>>, 0)
       ELSE Return(<<save>>, 0)

------------------------------------------------------------------------------
\* The engine.

\* engine.state.get_event_attrib_value(event_name)
get_event_attrib_value == engineStep

\* The engine emits its events, and so calls what is attached to them, only
\* inside trainer.run(...).
EngineRunning == phase = "running"

\* The engine completes one more iteration (or epoch) of the run.
EngineAdvance ==
    /\ EngineRunning
    /\ engineStep < MaxIter
    /\ engineStep' = engineStep + 1
    /\ UNCHANGED <<trainsInstalled, handlers, bypassAttr, logger, saver, phase, op,
                   taskInitCalls, sessionReached, flushes, reportedAfterClose,
                   watched, lastStep>>

------------------------------------------------------------------------------
\* State.

NoOp ==
    [kind |-> "none", loggerArg |-> "none", input |-> [none |-> TRUE],
     raised |-> "none", cause |-> "none", calls |-> <<>>, warnings |-> 0]

NoInput == [none |-> TRUE]

\* What the last call was given, what it read of it (nothing when it rejected the
\* logger argument first) and how it ended.
Outcome(kind, loggerArg, input, r) ==
    [kind |-> kind, loggerArg |-> loggerArg,
     input |-> IF r.cause = "logger_type" THEN NoInput ELSE input, raised |-> r.raised,
     cause |-> r.cause, calls |-> r.calls, warnings |-> r.warnings]

Init ==
    /\ trainsInstalled \in BOOLEAN
    /\ bypassAttr = <<>>
    /\ logger = [task |-> "none", bypassAtInit |-> FALSE]
    /\ handlers = NoHandlers
    /\ saver = [made |-> FALSE, atomic |-> FALSE]
    /\ phase = "setup"
    /\ engineStep = 0
    /\ op = NoOp
    /\ taskInitCalls = 0
    /\ sessionReached = FALSE
    /\ flushes = 0
    /\ reportedAfterClose = FALSE
    /\ watched = "none"
    /\ lastStep = <<>>

------------------------------------------------------------------------------
\* TrainsLogger: construction, bypass mode, close.

\* TrainsLogger.set_bypass_mode(bypass)
set_bypass_mode ==
    \E bypass \in BOOLEAN :
        /\ bypassAttr' = <<bypass>>
        /\ UNCHANGED <<trainsInstalled, handlers, logger, saver, phase, engineStep, op,
                       taskInitCalls, sessionReached, flushes, reportedAfterClose,
                       watched, lastStep>>

\* TrainsLogger.bypass_mode(), called by the user.
bypass_modeCalled ==
    \E environ \in Environs :
        /\ op' = Outcome("bypass_mode", "none",
                         [environ |-> environ, attr |-> bypassAttr,
                          result |-> bypass_mode(bypassAttr, environ)],
                         Return(<<>>, 0))
        /\ UNCHANGED <<trainsInstalled, handlers, bypassAttr, logger, saver, phase, engineStep,
                       taskInitCalls, sessionReached, flushes, reportedAfterClose,
                       watched, lastStep>>

\* TrainsLogger(...): run() constructs the logger once, before the run.
NewTrainsLogger ==
    /\ phase = "setup"
    /\ logger.task = "none"
    /\ \E environ \in Environs :
        LET bypass == bypass_mode(bypassAttr, environ)
            r == TrainsLogger_init(trainsInstalled, bypass)
        IN /\ logger' = [task |-> r.task, bypassAtInit |-> bypass /\ r.raised = "none"]
           /\ op' = Outcome("TrainsLogger", "none",
                            [environ |-> environ, attr |-> bypassAttr, bypass |-> bypass], r)
           /\ taskInitCalls' =
                  taskInitCalls + Len(SelectSeq(r.calls, LAMBDA c : c.api = "Task.init"))
           /\ sessionReached' = (sessionReached \/ r.calls # <<>>)
    /\ UNCHANGED <<trainsInstalled, handlers, bypassAttr, saver, phase, engineStep,
                   flushes, reportedAfterClose, watched, lastStep>>

\* The handlers are constructed and attached, after the logger was made.
AttachHandlers ==
    /\ phase = "setup"
    /\ logger.task # "none"
    /\ handlers = NoHandlers
    /\ handlers' \in HandlerSets
    /\ UNCHANGED <<trainsInstalled, bypassAttr, logger, saver, phase, engineStep, op,
                   taskInitCalls, sessionReached, flushes, reportedAfterClose,
                   watched, lastStep>>

\* trainer.run(...) is entered, after the logger, the handlers and the saver were
\* made: the engine starts firing the attached handlers.
StartRun ==
    /\ phase = "setup"
    /\ logger.task # "none"
    /\ handlers # NoHandlers
    /\ saver.made
    /\ phase' = "running"
    /\ UNCHANGED <<trainsInstalled, handlers, bypassAttr, logger, saver, engineStep, op,
                   taskInitCalls, sessionReached, flushes, reportedAfterClose,
                   watched, lastStep>>

\* trainer.run(...) returns.
RunReturns ==
    /\ phase = "running"
    /\ phase' = "returned"
    /\ UNCHANGED <<trainsInstalled, handlers, bypassAttr, logger, saver, engineStep, op,
                   taskInitCalls, sessionReached, flushes, reportedAfterClose,
                   watched, lastStep>>

\* logger.close(), the statement after trainer.run(...) in run().
Close ==
    /\ phase = "returned"
    /\ phase' = "closed"
    /\ op' = Outcome("close", "TrainsLogger", NoInput, Return(close, 0))
    /\ flushes' = flushes + Len(close)
    /\ sessionReached' = (sessionReached \/ Deliver(logger.task, close) # <<>>)
    /\ UNCHANGED <<trainsInstalled, handlers, bypassAttr, logger, saver, engineStep,
                   taskInitCalls, reportedAfterClose, watched, lastStep>>

------------------------------------------------------------------------------
\* Handlers fired by the engine during the run.

\* The effect, were a handler to store the prefix it built back into its tag.
Fire_stores_prefix(kind, loggerArg, input, r) ==
    /\ EngineRunning
    /\ op' = Outcome(kind, loggerArg, input, r)
    /\ handlers' = [handlers EXCEPT ![kind].tag = TagPrefix(@)]
    /\ sessionReached' = (sessionReached \/ Deliver(logger.task, r.calls) # <<>>)
    /\ reportedAfterClose' = (reportedAfterClose \/ (flushes > 0 /\ r.calls # <<>>))
    /\ UNCHANGED <<trainsInstalled, bypassAttr, logger, saver, phase, engineStep,
                   taskInitCalls, flushes>>

\* The effect of one handler invocation with outcome r.
Fire(kind, loggerArg, input, r) ==
    /\ EngineRunning
    /\ op' = Outcome(kind, loggerArg, input, r)
    /\ sessionReached' = (sessionReached \/ Deliver(logger.task, r.calls) # <<>>)
    /\ reportedAfterClose' = (reportedAfterClose \/ (flushes > 0 /\ r.calls # <<>>))
    /\ UNCHANGED <<trainsInstalled, handlers, bypassAttr, logger, saver, phase, engineStep,
                   taskInitCalls, flushes>>

\* self.global_step_transform(engine, event_name): by default the engine's value.
TransformOutputs(transform) ==
    IF transform = "default" THEN {[type |-> "int", val |-> get_event_attrib_value]}
    ELSE GlobalSteps

\* The engine calls each attached handler with the logger it was attached to and
\* with itself: the handler's fields are those stored at construction, the engine's
\* metrics, the optimizer's groups and the model's parameters are what they are
\* at the time of the call.
OutputHandlerFires ==
    /\ EngineRunning
    /\ LET self == handlers.OutputHandler
       IN \E loggerArg \in LoggerArgs :
              \E metrics \in MetricsInputs :
                  \E global_step \in TransformOutputs(self.global_step_transform) :
                      Fire("OutputHandler", loggerArg,
                           [tag |-> self.tag, metrics |-> metrics,
                            transform |-> self.global_step_transform,
                            global_step |-> global_step],
                           OutputHandler_call(loggerArg, self.tag, metrics, global_step))

OptimizerParamsHandlerFires ==
    /\ EngineRunning
    /\ LET self == handlers.OptimizerParamsHandler
       IN \E loggerArg \in LoggerArgs :
              \E groups \in GroupsInputs :
                  Fire("OptimizerParamsHandler", loggerArg,
                       [tag |-> self.tag, param_name |-> self.param_name, groups |-> groups,
                        global_step |-> get_event_attrib_value],
                       OptimizerParamsHandler_call(loggerArg, self.tag, self.param_name, groups,
                                                   get_event_attrib_value))

WeightsScalarHandlerFires ==
    /\ EngineRunning
    /\ LET self == handlers.WeightsScalarHandler
       IN \E loggerArg \in LoggerArgs :
              \E params \in ParamsInputs :
                  Fire("WeightsScalarHandler", loggerArg,
                       [tag |-> self.tag, reduction |-> self.reduction, params |-> params,
                        global_step |-> get_event_attrib_value],
                       WeightsScalarHandler_call(loggerArg, self.tag, self.reduction, params,
                                                 get_event_attrib_value))

WeightsHistHandlerFires ==
    /\ EngineRunning
    /\ LET self == handlers.WeightsHistHandler
       IN \E loggerArg \in LoggerArgs :
              \E params \in ParamsInputs :
                  Fire("WeightsHistHandler", loggerArg,
                       [tag |-> self.tag, params |-> params,
                        global_step |-> get_event_attrib_value],
                       WeightsHistHandler_call(loggerArg, self.tag, params,
                                               get_event_attrib_value))

GradsScalarHandlerFires ==
    /\ EngineRunning
    /\ LET self == handlers.GradsScalarHandler
       IN \E loggerArg \in LoggerArgs :
              \E params \in ParamsInputs :
                  Fire("GradsScalarHandler", loggerArg,
                       [tag |-> self.tag, reduction |-> self.reduction, params |-> params,
                        global_step |-> get_event_attrib_value],
                       GradsScalarHandler_call(loggerArg, self.tag, self.reduction, params,
                                               get_event_attrib_value))

GradsHistHandlerFires ==
    /\ EngineRunning
    /\ LET self == handlers.GradsHistHandler
       IN \E loggerArg \in LoggerArgs :
              \E params \in ParamsInputs :
                  Fire("GradsHistHandler", loggerArg,
                       [tag |-> self.tag, params |-> params,
                        global_step |-> get_event_attrib_value],
                       GradsHistHandler_call(loggerArg, self.tag, params,
                                             get_event_attrib_value))

------------------------------------------------------------------------------
\* TrainsSaver: construction, and the save fired by a Checkpoint handler.

NewTrainsSaver ==
    /\ phase = "setup"
    /\ ~saver.made
    /\ \E loggerArg \in LoggerArgs, dirnameGiven \in BOOLEAN, atomic \in BOOLEAN :
        /\ loggerArg = "TrainsLogger" => logger.task # "none"
        /\ LET r == TrainsSaver_init(loggerArg, trainsInstalled, dirnameGiven)
           IN /\ saver' = [made |-> r.raised = "none", atomic |-> atomic /\ r.raised = "none"]
              /\ op' = Outcome("TrainsSaver", loggerArg,
                               [dirnameGiven |-> dirnameGiven, atomic |-> atomic], r)
    /\ UNCHANGED <<trainsInstalled, handlers, bypassAttr, logger, phase, engineStep,
                   taskInitCalls, sessionReached, flushes, reportedAfterClose,
                   watched, lastStep>>

TrainsSaverCalled ==
    /\ EngineRunning
    /\ saver.made
    /\ \E diskReturns \in BOOLEAN, pathExists \in BOOLEAN :
        op' = Outcome("TrainsSaver.__call__", "none",
                      [atomic |-> saver.atomic, diskReturns |-> diskReturns,
                       pathExists |-> pathExists],
                      TrainsSaver_call(saver.atomic, diskReturns, pathExists, trainsInstalled))
    /\ UNCHANGED <<trainsInstalled, handlers, bypassAttr, logger, saver, phase, engineStep,
                   taskInitCalls, sessionReached, flushes, reportedAfterClose,
                   watched, lastStep>>

------------------------------------------------------------------------------
\* The run of the example: construct, run, close.

Untracked == UNCHANGED <<watched, lastStep>>

Next ==
    \/ set_bypass_mode
    \/ bypass_modeCalled
    \/ NewTrainsLogger
    \/ AttachHandlers
    \/ NewTrainsSaver
    \/ StartRun
    \/ EngineAdvance
    \/ OutputHandlerFires /\ Untracked
    \/ OptimizerParamsHandlerFires /\ Untracked
    \/ WeightsScalarHandlerFires /\ Untracked
    \/ WeightsHistHandlerFires /\ Untracked
    \/ GradsScalarHandlerFires /\ Untracked
    \/ GradsHistHandlerFires /\ Untracked
    \/ TrainsSaverCalled
    \/ RunReturns
    \/ Close

Spec == Init /\ [][Next]_vars

------------------------------------------------------------------------------
\* The steps one attached handler passes over a run.

Instances ==
    {"OutputHandler/default", "OutputHandler/user", "OptimizerParamsHandler",
     "WeightsScalarHandler", "WeightsHistHandler", "GradsScalarHandler",
     "GradsHistHandler"}

\* The attached handler an invocation belongs to: an OutputHandler is attached
\* with or without a global_step_transform of the user's.
InstanceOf(o) ==
    IF o.kind = "OutputHandler" /\ o.loggerArg = "TrainsLogger"
    THEN "OutputHandler/" \o o.input.transform
    ELSE o.kind

\* The step argument of a vendor call.
StepOf(c) == IF c.api = "add_histogram" THEN c.step ELSE c.iteration

Track ==
    /\ watched' = watched
    /\ lastStep' = IF InstanceOf(op') = watched /\ op'.calls # <<>>
                   THEN <<StepOf(op'.calls[Len(op'.calls)])>>
                   ELSE lastStep

InitSteps ==
    /\ trainsInstalled = TRUE
    /\ bypassAttr = <<>>
    /\ logger = [task |-> "real", bypassAtInit |-> FALSE]
    /\ saver = [made |-> TRUE, atomic |-> TRUE]
    /\ phase = "running"
    /\ engineStep = 0
    /\ op = NoOp
    /\ taskInitCalls = 1
    /\ sessionReached = TRUE
    /\ flushes = 0
    /\ reportedAfterClose = FALSE
    /\ handlers \in HandlerSets
    /\ watched \in {i \in Instances :
                       i \in HandlerKinds \ {"OutputHandler"}
                           \/ i = "OutputHandler/" \o handlers.OutputHandler.global_step_transform}
    /\ lastStep = <<>>

NextSteps ==
    \/ EngineAdvance
    \/ OutputHandlerFires /\ Track
    \/ OptimizerParamsHandlerFires /\ Track
    \/ WeightsScalarHandlerFires /\ Track
    \/ WeightsHistHandlerFires /\ Track
    \/ GradsScalarHandlerFires /\ Track
    \/ GradsHistHandlerFires /\ Track

SpecSteps == InitSteps /\ [][NextSteps]_vars

------------------------------------------------------------------------------
\* Properties.

IsNumeric(v) == v.type \in {"float", "int"}

NumericIndices(ms) == {i \in 1..Len(ms) : IsNumeric(ms[i].value)}

OutputHandlerRan == op.kind = "OutputHandler" /\ op.loggerArg = "TrainsLogger"

\* C1: with an int global step g, an OutputHandler invocation issues exactly one
\* report_scalar per metric whose value is a float or int (title = tag, series =
\* key, iteration = g, value = the metric's value), none for a metric of another
\* type, for which it warns, and it goes on to the remaining metrics.
C1_OneScalarPerNumericMetric ==
    (OutputHandlerRan /\ op.input.global_step.type = "int") =>
        LET ms == op.input.metrics
            g == op.input.global_step.val
            numeric == NumericIndices(ms)
        IN /\ op.raised = "none"
           /\ Len(op.calls) = Cardinality(numeric)
           /\ \A i \in numeric :
                 /\ Cardinality({j \in 1..Len(op.calls) : op.calls[j].series = ms[i].key}) = 1
                 /\ \E j \in 1..Len(op.calls) :
                       op.calls[j] = [api |-> "report_scalar", title |-> op.input.tag,
                                      series |-> ms[i].key, iteration |-> g,
                                      value |-> ms[i].value]
           /\ \A i \in (1..Len(ms)) \ numeric :
                 \A j \in 1..Len(op.calls) : op.calls[j].series # ms[i].key
           /\ op.warnings = Len(ms) - Cardinality(numeric)

\* A metric of another type comes first, a numeric one after it is still reported.
C1_Witness ==
    /\ OutputHandlerRan
    /\ op.input.global_step.type = "int"
    /\ Len(op.input.metrics) = 2
    /\ ~IsNumeric(op.input.metrics[1].value)
    /\ IsNumeric(op.input.metrics[2].value)
    /\ Len(op.calls) = 1
    /\ op.warnings = 1

\* C2: when global_step_transform returns a value that is not an int, the
\* OutputHandler raises TypeError and has made no report_scalar call.
C2_NonIntGlobalStepRaises ==
    (OutputHandlerRan /\ op.input.global_step.type # "int") =>
        /\ op.raised = "TypeError"
        /\ op.calls = <<>>

C2_Witness ==
    /\ OutputHandlerRan
    /\ op.input.global_step.type = "float"
    /\ NumericIndices(op.input.metrics) # {}
    /\ op.raised = "TypeError"

\* C3, as the specification states it: an error outcome is either an import
\* failure or a type mismatch that is only warned about and does not abort.
C3_OnlyImportFailuresAbort ==
    op.raised # "none" => op.cause = "missing_package"

VendorReports(cs) ==
    {j \in 1..Len(cs) : cs[j].api \in {"report_scalar", "add_histogram", "create_output_model"}}

\* C3, amended: an error this module raises is a RuntimeError for a missing vendor
\* package, a RuntimeError (handlers) or TypeError (TrainsSaver) for a logger that
\* is not a TrainsLogger, or a TypeError for a global step that is not an int; each
\* aborts the call with no vendor report made. An error of the inherited save
\* propagates. Only a metric value of another type is warned about without
\* aborting. No call is issued twice.
C3_ErrorOutcomes ==
    /\ op.raised # "none" =>
          /\ \/ op.cause = "missing_package" /\ op.raised = "RuntimeError"
             \/ /\ op.cause = "logger_type"
                /\ op.raised = IF op.kind = "TrainsSaver" THEN "TypeError" ELSE "RuntimeError"
             \/ /\ op.cause = "global_step_type"
                /\ op.raised = "TypeError"
                /\ op.kind = "OutputHandler"
             \/ op.cause = "disk_save" /\ op.kind = "TrainsSaver.__call__"
          /\ VendorReports(op.calls) = {}
          /\ op.warnings = 0
    /\ (OutputHandlerRan /\ op.input.global_step.type = "int") =>
          /\ op.raised = "none"
          /\ op.warnings = Len(op.input.metrics) - Cardinality(NumericIndices(op.input.metrics))
    /\ \A i, j \in 1..Len(op.calls) : op.calls[i] = op.calls[j] => i = j

C3_Witness ==
    /\ op.kind = "OutputHandler"
    /\ op.raised = "TypeError"
    /\ op.cause = "global_step_type"
    /\ op.input.metrics # <<>>

Uploads(cs) == {j \in 1..Len(cs) : cs[j].api = "create_output_model"}

\* C4: a TrainsSaver call uploads at most once, only after the inherited DiskSaver
\* save of the checkpoint has returned, only when the saver is atomic and the file
\* exists; when the local save raises there is no upload.
C4_UploadAfterLocalSave ==
    op.kind = "TrainsSaver.__call__" =>
        /\ Cardinality(Uploads(op.calls)) <= 1
        /\ \A j \in Uploads(op.calls) :
              /\ op.input.atomic
              /\ op.input.pathExists
              /\ \E i \in 1..(j - 1) :
                    op.calls[i].api = "DiskSaver.__call__" /\ op.calls[i].returned
        /\ ~op.input.diskReturns => Uploads(op.calls) = {}

C4_Witness ==
    /\ op.kind = "TrainsSaver.__call__"
    /\ Uploads(op.calls) = {2}

\* C5: a logger constructed while bypass_mode() is True never calls
\* trains.Task.init, and no call made through it by a handler or by close()
\* reaches a vendor session.
C5_BypassReachesNoSession ==
    logger.bypassAtInit =>
        /\ logger.task = "stub"
        /\ taskInitCalls = 0
        /\ ~sessionReached

\* Bypass was switched off after construction, a histogram handler issued a call.
C5_Witness ==
    /\ logger.bypassAtInit
    /\ bypassAttr = <<FALSE>>
    /\ op.kind = "WeightsHistHandler"
    /\ op.calls # <<>>

\* C6: with set_bypass_mode never called, bypass_mode() is True when
\* GITHUB_ACTIONS is set and False when no CI-marking variable is set; after
\* set_bypass_mode(False) it is False whatever the environment.
C6_GithubActionsSetsBypass ==
    op.kind = "bypass_mode" =>
        /\ (op.input.attr = <<>> /\ op.input.environ.GITHUB_ACTIONS # Unset)
              => op.input.result = TRUE
        /\ (op.input.attr = <<>> /\ op.input.environ.GITHUB_ACTIONS = Unset
               /\ op.input.environ.CI = Unset)
              => op.input.result = FALSE
        /\ op.input.attr = <<FALSE>> => op.input.result = FALSE

WithGrad(params) == SelectSeq(params, LAMBDA p : p.grad # NoGrad)

\* C7: for every named parameter that has a gradient, GradsScalarHandler reports
\* the reduction of that parameter's gradient, under the title
\* <tag>/grads_<reduction name>/<title part>.
C7_GradsScalarReducesGradient ==
    (op.kind = "GradsScalarHandler" /\ op.loggerArg = "TrainsLogger") =>
        LET ps == WithGrad(op.input.params)
        IN /\ Len(op.calls) = Len(ps)
           /\ \A i \in 1..Len(ps) :
                 /\ op.calls[i].value = Reduce(op.input.reduction, ps[i].grad)
                 /\ op.calls[i].title =
                        TagPrefix(op.input.tag) \o "grads_" \o op.input.reduction \o "/"
                            \o Partition(ps[i].name).title_name

\* C8: for every named parameter it reports, WeightsHistHandler passes that
\* parameter's weight data as hist_data, not its gradient.
C8_WeightsHistSendsWeights ==
    (op.kind = "WeightsHistHandler" /\ op.loggerArg = "TrainsLogger") =>
        LET ps == WithGrad(op.input.params)
        IN /\ Len(op.calls) = Len(ps)
           /\ \A i \in 1..Len(ps) : op.calls[i].hist_data = ps[i].data

\* C9, as the specification states it: the steps an attached handler passes never
\* decrease, an OutputHandler with a global_step_transform of the user's included.
C9_StepsNeverDecrease ==
    [][(lastStep # <<>> /\ lastStep' # <<>>) => lastStep'[1] >= lastStep[1]]_vars

\* C9, amended: every call of an invocation carries the step the handler was
\* supplied with (the engine's value, or the output of global_step_transform);
\* the steps of a handler that takes the engine's value never decrease.
C9_EngineStepsNeverDecrease ==
    /\ [](\A j \in 1..Len(op.calls) :
             op.calls[j].api \in {"report_scalar", "add_histogram"} =>
                 StepOf(op.calls[j]) =
                     IF op.kind = "OutputHandler" THEN op.input.global_step.val
                     ELSE op.input.global_step)
    /\ [][(watched # "OutputHandler/user" /\ lastStep # <<>> /\ lastStep' # <<>>)
             => lastStep'[1] >= lastStep[1]]_vars

C9_Witness ==
    /\ watched = "OptimizerParamsHandler"
    /\ op.kind = "OptimizerParamsHandler"
    /\ Len(op.calls) = MaxGroups
    /\ engineStep = MaxIter
    /\ lastStep = <<MaxIter>>

HandlerStep == op'.kind \in HandlerKinds /\ (op'.kind # op.kind \/ op' # op)

SameInvocation ==
    op'.kind = op.kind /\ op'.loggerArg = op.loggerArg /\ op'.input = op.input

ItemsOf(o) ==
    IF o.kind = "OutputHandler" THEN o.input.metrics
    ELSE IF o.kind = "OptimizerParamsHandler" THEN o.input.groups
    ELSE o.input.params

HandlerReported ==
    op.kind \in HandlerKinds /\ op.loggerArg = "TrainsLogger" /\ op.raised = "none"

C13_OtherLoggerRaisesFirst ==
    op.kind \in HandlerKinds =>
        /\ op.loggerArg # "TrainsLogger" =>
              /\ op.raised = "RuntimeError"
              /\ op.cause = "logger_type"
              /\ op.calls = <<>>
              /\ op.warnings = 0
              /\ op.input = NoInput
        /\ op.loggerArg = "TrainsLogger" =>
              /\ op.cause # "logger_type"
              /\ op.raised = "RuntimeError" => op.cause = "missing_package"
              /\ op.input # NoInput

C13_Witness ==
    /\ op.kind = "WeightsScalarHandler"
    /\ op.loggerArg = "OtherLogger"
    /\ op.raised = "RuntimeError"
    /\ op.calls = <<>>
    /\ phase = "running"
    /\ logger.task = "real"

====
